---------------------------- MODULE Spec2Model ----------------------------
(***************************************************************************)
(* The survival-analysis workshop notebook (src/Workshop.ipynb).           *)
(*                                                                         *)
(* The notebook states the Kaplan-Meier product-limit estimator in Part 0  *)
(* and applies it, through fitter objects, to a clinical table in Part 2   *)
(* to Part 4.  The model keeps the notebook's tables, its two fitter       *)
(* objects, the figures it draws and the position in the cell sequence.    *)
(* One action is one code cell, run top to bottom as the notebook is       *)
(* written.                                                                *)
(*                                                                         *)
(* Survival probabilities are exact fractions <<numerator, denominator>>   *)
(* in lowest terms.  The tables are complete (no missing value), so the    *)
(* dropna() calls keep every row, and every table handed to fit() is       *)
(* non-empty: what fit() does with an empty or malformed table is decided  *)
(* inside the lifelines package, which is not part of the notebook.        *)
(***************************************************************************)
EXTENDS Integers, Sequences, FiniteSets, TLC

\* Bounds of the model.
MaxN == 3          \* rows of the clinical table
MaxMonths == 2     \* largest 'Overall Survival (Months)' value

\* clinical['Time'] = clinical['Overall Survival (Months)']*30
DaysPerMonth == 30

VARIABLES
    clinical,    \* the clinical table, a sequence of rows
    group_1,     \* rows selected by the first grouping condition
    group_2,     \* rows selected by the second grouping condition
    kmf,         \* the shared KaplanMeierFitter
    kmf_naive,   \* the fitter of the naive estimate
    part0,       \* the estimate asked for in Part 0 on the fly table
    figures,     \* the figures drawn so far, each a sequence of lines
    pc           \* the next cell to run

vars == <<clinical, group_1, group_2, kmf, kmf_naive, part0, figures, pc>>

-----------------------------------------------------------------------------
\* Exact fractions.

RECURSIVE GCD(_, _)
GCD(a, b) == IF b = 0 THEN a ELSE GCD(b, a % b)

Frac(a, b) == LET g == GCD(a, b) IN <<a \div g, b \div g>>

One == <<1, 1>>

Mul(f, g) == Frac(f[1] * g[1], f[2] * g[2])

Leq(f, g) == f[1] * g[2] <= g[1] * f[2]

Less(f, g) == f[1] * g[2] < g[1] * f[2]

-----------------------------------------------------------------------------
\* Tables and columns.

Column(table, name) == [i \in DOMAIN table |-> table[i][name]]

\* table.loc[table[name] == value]
RECURSIVE Select(_, _, _)
Select(table, name, value) ==
    IF table = <<>> THEN <<>>
    ELSE LET rest == Select(Tail(table), name, value)
         IN  IF Head(table)[name] = value THEN <<Head(table)>> \o rest ELSE rest

Repeat_zero(v, n) == [i \in 1..n |-> 0]

\* np.repeat(1, len(...))
Repeat(v, n) == [i \in 1..n |-> v]

RECURSIVE SortedSeq(_)
SortedSeq(S) ==
    IF S = {} THEN <<>>
    ELSE LET m == CHOOSE x \in S : \A y \in S : x <= y
         IN  <<m>> \o SortedSeq(S \ {m})

\* The fly table of Part 0: survival time in days, 1 = Dead, 0 = Alive.
FlyData ==
    << [Time |-> 1, Event |-> 1], [Time |-> 2, Event |-> 0],
       [Time |-> 3, Event |-> 0], [Time |-> 4, Event |-> 1],
       [Time |-> 5, Event |-> 1], [Time |-> 6, Event |-> 0],
       [Time |-> 7, Event |-> 1], [Time |-> 8, Event |-> 1],
       [Time |-> 9, Event |-> 0], [Time |-> 10, Event |-> 0] >>

-----------------------------------------------------------------------------
\* The Kaplan-Meier estimator of Part 0.

EventTimes_positive(durations, event_observed) ==
    {durations[i] : i \in {j \in DOMAIN durations :
                              event_observed[j] = 1 /\ durations[j] > 0}}

\* the times t_i at which a death occurs
EventTimes(durations, event_observed) ==
    {durations[i] : i \in {j \in DOMAIN durations : event_observed[j] = 1}}

Deaths_single(durations, event_observed, t) ==
    IF \E i \in DOMAIN durations : durations[i] = t /\ event_observed[i] = 1
    THEN 1 ELSE 0

\* d_i: the number of deaths at time t
Deaths(durations, event_observed, t) ==
    Cardinality({i \in DOMAIN durations :
                    durations[i] = t /\ event_observed[i] = 1})

AtRisk_strict(durations, t) ==
    Cardinality({i \in DOMAIN durations : durations[i] > t})

AtRisk_positional(durations, t) ==
    LET at == {i \in DOMAIN durations : durations[i] = t}
    IN  IF at = {} THEN 0
        ELSE Len(durations) - (CHOOSE i \in at : \A j \in at : i <= j) + 1

\* n_i: the number of individuals known to have survived until time t
AtRisk(durations, t) ==
    Cardinality({i \in DOMAIN durations : durations[i] >= t})

Factor_inverted(d, n) == Frac(n + d, n)

\* 1 - d_i/n_i
Factor(d, n) == Frac(n - d, n)

RECURSIVE CurvePoints_noacc(_, _, _)
CurvePoints_noacc(durations, event_observed, ts) ==
    IF ts = <<>> THEN <<>>
    ELSE LET t == ts[Len(ts)]
             d == Deaths(durations, event_observed, t)
             n == AtRisk(durations, t)
         IN  Append(CurvePoints_noacc(durations, event_observed,
                                      SubSeq(ts, 1, Len(ts) - 1)),
                    [time |-> t,
                     survival_probability |-> Factor(d, n),
                     at_risk_count |-> n,
                     event_count |-> d])

\* The curve over the sorted event times ts: one point per t_i, holding the
\* running product of the factors up to and including t_i.
RECURSIVE CurvePoints(_, _, _)
CurvePoints(durations, event_observed, ts) ==
    IF ts = <<>> THEN <<>>
    ELSE LET before == CurvePoints(durations, event_observed,
                                   SubSeq(ts, 1, Len(ts) - 1))
             t == ts[Len(ts)]
             d == Deaths(durations, event_observed, t)
             n == AtRisk(durations, t)
             prev == IF before = <<>> THEN One
                     ELSE before[Len(before)].survival_probability
         IN  Append(before,
                    [time |-> t,
                     survival_probability |-> Mul(prev, Factor(d, n)),
                     at_risk_count |-> n,
                     event_count |-> d])

\* A risk set of size zero at an event time: the factor is undefined.
ZeroRisk(durations, event_observed) ==
    \E t \in EventTimes(durations, event_observed) : AtRisk(durations, t) = 0

KaplanMeier(durations, event_observed) ==
    IF ZeroRisk(durations, event_observed) THEN <<>>
    ELSE CurvePoints(durations, event_observed,
                     SortedSeq(EventTimes(durations, event_observed)))

SurvivalAt_strict(curve, t) ==
    LET upto == {k \in DOMAIN curve : curve[k].time < t}
    IN  IF upto = {} THEN One
        ELSE curve[CHOOSE k \in upto : \A j \in upto : j <= k].survival_probability

\* S(t): the product over the t_i <= t, 1 before the first event time.
SurvivalAt(curve, t) ==
    LET upto == {k \in DOMAIN curve : curve[k].time <= t}
    IN  IF upto = {} THEN One
        ELSE curve[CHOOSE k \in upto : \A j \in upto : j <= k].survival_probability

-----------------------------------------------------------------------------
\* Fitter objects.

\* lifelines.KaplanMeierFitter()
KaplanMeierFitter ==
    [fitted |-> FALSE, error |-> FALSE, durations |-> <<>>,
     event_observed |-> <<>>, label |-> "", curve |-> <<>>]

fit_accumulate(self, durations, event_observed, label) ==
    LET ds == self.durations \o durations
        es == self.event_observed \o event_observed
    IN  [fitted |-> TRUE,
         error |-> ZeroRisk(ds, es),
         durations |-> ds,
         event_observed |-> es,
         label |-> label,
         curve |-> KaplanMeier(ds, es)]

fit_ignore_events(self, durations, event_observed, label) ==
    LET es == [i \in DOMAIN durations |-> 1]
    IN  [fitted |-> TRUE,
         error |-> ZeroRisk(durations, es),
         durations |-> durations,
         event_observed |-> event_observed,
         label |-> label,
         curve |-> KaplanMeier(durations, es)]

\* kmf.fit(durations, event_observed, label=...)
fit(self, durations, event_observed, label) ==
    [fitted |-> TRUE,
     error |-> ZeroRisk(durations, event_observed),
     durations |-> durations,
     event_observed |-> event_observed,
     label |-> label,
     curve |-> KaplanMeier(durations, event_observed)]

\* kmf.plot(ax=ax): one more line on the axes
plot(self, ax) == Append(ax, [label |-> self.label, curve |-> self.curve])

-----------------------------------------------------------------------------
\* The notebook.

RawRows ==
    [Months : 0..MaxMonths,
     Status : {"DECEASED", "LIVING"},
     Metastasis : {"Positive", "Negative"}]

Tables(rows) == UNION {[1..n -> rows] : n \in 1..MaxN}

Init ==
    /\ clinical \in Tables(RawRows)
    /\ group_1 = <<>>
    /\ group_2 = <<>>
    /\ kmf = KaplanMeierFitter
    /\ kmf_naive = KaplanMeierFitter
    /\ part0 = <<>>
    /\ figures = <<>>
    /\ pc = "part0"

\* Part 0: the estimator on the fly table.
Part0 ==
    /\ pc = "part0"
    /\ part0' = KaplanMeier(Column(FlyData, "Time"), Column(FlyData, "Event"))
    /\ pc' = "part2"
    /\ UNCHANGED <<clinical, group_1, group_2, kmf, kmf_naive, figures>>

\* Part 2: the Time and Event columns.
AddColumns ==
    /\ pc = "part2"
    /\ clinical' =
         [i \in DOMAIN clinical |->
            [Months |-> clinical[i].Months,
             Status |-> clinical[i].Status,
             Metastasis |-> clinical[i].Metastasis,
             Time |-> clinical[i].Months * DaysPerMonth,
             Event |-> IF clinical[i].Status = "DECEASED" THEN 1 ELSE 0]]
    /\ pc' = "part3"
    /\ UNCHANGED <<group_1, group_2, kmf, kmf_naive, part0, figures>>

\* Part 3: the Kaplan-Meier estimate and the naive estimate of the whole table.
FitClinical ==
    /\ pc = "part3"
    /\ LET time == Column(clinical, "Time")
           k == fit(KaplanMeierFitter, time, Column(clinical, "Event"), "")
           n == fit(KaplanMeierFitter, time, Repeat(1, Len(time)), "")
       IN  /\ kmf' = k
           /\ kmf_naive' = n
           /\ figures' = Append(figures, plot(n, plot(k, <<>>)))
    /\ pc' = "groups"
    /\ UNCHANGED <<clinical, group_1, group_2, part0>>

\* The two grouped fits of one cell, on the shared fitter.
GroupCell(here, next) ==
    /\ pc = here
    /\ LET g1 == Select(clinical, "Metastasis", "Positive")
           g2 == Select(clinical, "Metastasis", "Negative")
       IN  /\ g1 # <<>>
           /\ g2 # <<>>
           /\ group_1' = g1
           /\ group_2' = g2
           /\ LET k1 == fit(kmf, Column(g1, "Time"), Column(g1, "Event"),
                            "Positive")
                  ax == plot(k1, <<>>)
                  k2 == fit(k1, Column(g2, "Time"), Column(g2, "Event"),
                            "Negative")
              IN  /\ kmf' = k2
                  /\ figures' = Append(figures, plot(k2, ax))
    /\ pc' = next
    /\ UNCHANGED <<clinical, kmf_naive, part0>>

\* Part 3: the survival curves of the two groups.
FitGroups == GroupCell("groups", "part4")

\* Part 4: the log-log curves of the same two groups.
FitGroupsLogLogs == GroupCell("part4", "done")

Next ==
    \/ Part0
    \/ AddColumns
    \/ FitClinical
    \/ FitGroups
    \/ FitGroupsLogLogs

Spec == Init /\ [][Next]_vars

\* The notebook up to the fits of the whole table.  No cell on this path
\* reads the grouping column, so it is held at one value.
InitEstimator ==
    /\ Init
    /\ \A i \in DOMAIN clinical : clinical[i].Metastasis = "Negative"

NextEstimator ==
    \/ Part0
    \/ AddColumns
    \/ FitClinical

SpecEstimator == InitEstimator /\ [][NextEstimator]_vars

-----------------------------------------------------------------------------
\* Properties.

Fitters == {f \in {kmf, kmf_naive} : f.fitted}

Zero == <<0, 1>>

\* The times at which a fitted curve is examined: day 0, every duration of
\* the input, the day before it and the day after it.  The curve is a step
\* function whose steps lie at durations, so these days show every value it
\* takes and both sides of every step.
Days(f) ==
    {0} \cup {t \in UNION {{f.durations[i] - 1, f.durations[i], f.durations[i] + 1} :
                             i \in DOMAIN f.durations} : t >= 0}

EventAt(f, t) ==
    \E i \in DOMAIN f.durations : f.durations[i] = t /\ f.event_observed[i] = 1

Shuffle(seq, p) == [i \in DOMAIN seq |-> seq[p[i]]]

Fresh(table) ==
    fit(KaplanMeierFitter, Column(table, "Time"), Column(table, "Event"), "").curve

\* C1: every fitted curve has all its survival probabilities in [0, 1], its
\* points in strictly increasing time order, and a later point never has a
\* larger survival probability than an earlier one; the same holds of S(t)
\* read at any two examined days.
C1_MonotoneBounded ==
    \A f \in Fitters :
        /\ \A a \in DOMAIN f.curve :
              /\ Leq(Zero, f.curve[a].survival_probability)
              /\ Leq(f.curve[a].survival_probability, One)
        /\ \A a, b \in DOMAIN f.curve :
              a < b => /\ f.curve[a].time < f.curve[b].time
                       /\ Leq(f.curve[b].survival_probability,
                              f.curve[a].survival_probability)
        /\ \A ta, tb \in Days(f) :
              ta < tb => Leq(SurvivalAt(f.curve, tb), SurvivalAt(f.curve, ta))

C1_Witness ==
    /\ kmf.fitted
    /\ Len(kmf.curve) >= 2
    /\ Less(kmf.curve[2].survival_probability, kmf.curve[1].survival_probability)
    /\ Less(Zero, kmf.curve[2].survival_probability)

\* C2 as stated: the survival estimate at time 0 of every fitted curve is 1.
C2_SurvivalAtZeroIsOne ==
    \A f \in Fitters : SurvivalAt(f.curve, 0) = One

\* C2 as amended: the survival estimate at time 0 is 1 when no observation
\* has duration 0 with the event observed; when d_0 >= 1 observations do,
\* it is 1 - d_0/N, with N the number of observations.
C2_SurvivalAtZero ==
    \A f \in Fitters :
        LET d0 == Cardinality({i \in DOMAIN f.durations :
                                  f.durations[i] = 0 /\ f.event_observed[i] = 1})
            N == Len(f.durations)
        IN  /\ d0 = 0 => SurvivalAt(f.curve, 0) = One
            /\ d0 > 0 => /\ SurvivalAt(f.curve, 0) = Frac(N - d0, N)
                         /\ Less(SurvivalAt(f.curve, 0), One)

C2_Witness ==
    /\ kmf.fitted
    /\ \E i \in DOMAIN kmf.durations :
          kmf.durations[i] = 0 /\ kmf.event_observed[i] = 0
    /\ ~EventAt(kmf, 0)
    /\ kmf.curve # <<>>
    /\ kmf_naive.fitted
    /\ Less(SurvivalAt(kmf_naive.curve, 0), One)

\* C3: on the ten-fly table the estimate has exactly the five event times
\* 1, 4, 5, 7, 8, each with one death, with 10, 7, 6, 4, 3 at risk and the
\* survival probabilities 9/10, 27/35, 9/14, 27/56, 9/28, and it stays at
\* 9/28 from day 8 on.
C3_FlyCurve ==
    pc # "part0" =>
        /\ part0 =
             << [time |-> 1, survival_probability |-> <<9, 10>>,
                 at_risk_count |-> 10, event_count |-> 1],
                [time |-> 4, survival_probability |-> <<27, 35>>,
                 at_risk_count |-> 7, event_count |-> 1],
                [time |-> 5, survival_probability |-> <<9, 14>>,
                 at_risk_count |-> 6, event_count |-> 1],
                [time |-> 7, survival_probability |-> <<27, 56>>,
                 at_risk_count |-> 4, event_count |-> 1],
                [time |-> 8, survival_probability |-> <<9, 28>>,
                 at_risk_count |-> 3, event_count |-> 1] >>
        /\ \A i \in DOMAIN FlyData :
              FlyData[i].Time >= 8 =>
                 /\ SurvivalAt(part0, FlyData[i].Time) = <<9, 28>>
                 /\ SurvivalAt(part0, FlyData[i].Time + 1) = <<9, 28>>

C3_Witness ==
    /\ pc = "groups"
    /\ Len(part0) = Cardinality({i \in DOMAIN FlyData : FlyData[i].Event = 1})

\* C4: at every examined day t, the survival estimate is strictly lower than on the
\* day before exactly when some observation ends at t with the event
\* observed, and is otherwise equal to it (before day 0 it is 1).
C4_DropsOnlyAtEvents ==
    \A f \in Fitters :
        \A t \in Days(f) :
            /\ EventAt(f, t) =>
                  Less(SurvivalAt(f.curve, t), SurvivalAt(f.curve, t - 1))
            /\ ~EventAt(f, t) =>
                  SurvivalAt(f.curve, t) = SurvivalAt(f.curve, t - 1)
            /\ (\A u \in Days(f) : u <= t => ~EventAt(f, u)) =>
                  SurvivalAt(f.curve, t) = One

C4_Witness ==
    /\ kmf.fitted
    /\ \E i, j \in DOMAIN kmf.durations :
          /\ kmf.event_observed[i] = 0
          /\ ~EventAt(kmf, kmf.durations[i])
          /\ kmf.event_observed[j] = 1
          /\ kmf.durations[i] < kmf.durations[j]
          /\ SurvivalAt(kmf.curve, kmf.durations[i]) = One
          /\ Less(SurvivalAt(kmf.curve, kmf.durations[j]), One)

\* C5: fitting any permutation of the observations a fitter was fitted on
\* gives the curve the fitter holds.
C5_OrderIndependent ==
    \A f \in Fitters :
        \A p \in Permutations(DOMAIN f.durations) :
            fit(KaplanMeierFitter, Shuffle(f.durations, p),
                Shuffle(f.event_observed, p), f.label).curve = f.curve

C5_Witness ==
    /\ kmf.fitted
    /\ Len(kmf.durations) >= 3
    /\ kmf.durations[1] > kmf.durations[2]
    /\ kmf.durations[2] = kmf.durations[3]
    /\ kmf.event_observed[2] # kmf.event_observed[3]
    /\ Len(kmf.curve) >= 2

C7_NaiveDropsAtEveryDuration ==
    kmf_naive.fitted =>
        LET ds == {kmf_naive.durations[i] : i \in DOMAIN kmf_naive.durations}
        IN  /\ \A t \in ds :
                  Less(SurvivalAt(kmf_naive.curve, t),
                       SurvivalAt(kmf_naive.curve, t - 1))
            /\ {kmf_naive.curve[k].time : k \in DOMAIN kmf_naive.curve} = ds
            /\ Len(kmf_naive.curve) = Cardinality(ds)

C7_Witness ==
    /\ kmf_naive.fitted
    /\ Cardinality({kmf_naive.durations[i] : i \in DOMAIN kmf_naive.durations}) >= 2
    /\ \E i \in DOMAIN kmf.event_observed : kmf.event_observed[i] = 0
    /\ kmf_naive.curve # kmf.curve

AllCensored(f) == \A i \in DOMAIN f.event_observed : f.event_observed[i] = 0

\* C8: a fitter fitted on observations none of which has the event observed
\* reports no error and its survival estimate is 1 at every examined day.
C8_AllCensoredFlat ==
    \A f \in Fitters :
        AllCensored(f) =>
            /\ ~f.error
            /\ \A t \in Days(f) : SurvivalAt(f.curve, t) = One
            /\ \A k \in DOMAIN f.curve : f.curve[k].survival_probability = One

C8_Witness ==
    /\ kmf.fitted
    /\ AllCensored(kmf)
    /\ Len(kmf.durations) >= 2
    /\ kmf.durations[1] # kmf.durations[2]

\* C10: the curve has one point per event time; at each, the number at risk
\* is the number of observations with duration >= that time, the event count
\* is the number ending at that time with the event observed, at risk >=
\* events >= 1, the factor 1 - d/n lies in [0, 1), and no fit reports a
\* zero-sized risk set.
C10_RiskSetCoversEvents ==
    \A f \in Fitters :
        /\ ~f.error
        /\ {f.curve[k].time : k \in DOMAIN f.curve} =
              {t \in Days(f) : EventAt(f, t)}
        /\ \A k \in DOMAIN f.curve :
              LET n == f.curve[k].at_risk_count
                  d == f.curve[k].event_count
              IN  /\ n = Cardinality({i \in DOMAIN f.durations :
                                         f.durations[i] >= f.curve[k].time})
                  /\ d = Cardinality({i \in DOMAIN f.durations :
                                         /\ f.durations[i] = f.curve[k].time
                                         /\ f.event_observed[i] = 1})
                  /\ n >= d
                  /\ d >= 1
                  /\ Leq(Zero, <<n - d, n>>)
                  /\ Less(<<n - d, n>>, One)

C10_Witness ==
    /\ kmf.fitted
    /\ \E k \in DOMAIN kmf.curve :
          /\ kmf.curve[k].event_count >= 2
          /\ kmf.curve[k].at_risk_count = kmf.curve[k].event_count
    /\ \E k \in DOMAIN kmf.curve :
          kmf.curve[k].at_risk_count > kmf.curve[k].event_count

\* C11: once both fitters are fitted on the same durations, the naive
\* estimate is at most the Kaplan-Meier estimate at every examined day, the
\* naive estimate at day t is the fraction of observations with duration
\* > t, and the two curves are the same when every indicator of the
\* Kaplan-Meier fit is 1.
C11_NaiveBelowKaplanMeier ==
    (kmf.fitted /\ kmf_naive.fitted /\ kmf.durations = kmf_naive.durations) =>
        LET N == Len(kmf_naive.durations)
        IN  /\ \A t \in Days(kmf_naive) :
                  /\ Leq(SurvivalAt(kmf_naive.curve, t), SurvivalAt(kmf.curve, t))
                  /\ SurvivalAt(kmf_naive.curve, t) =
                        Frac(Cardinality({i \in DOMAIN kmf_naive.durations :
                                             kmf_naive.durations[i] > t}), N)
            /\ (\A i \in DOMAIN kmf.event_observed : kmf.event_observed[i] = 1)
                  => kmf_naive.curve = kmf.curve

C11_Witness ==
    /\ kmf.fitted
    /\ kmf_naive.fitted
    /\ kmf.durations = kmf_naive.durations
    /\ \E i, j \in DOMAIN kmf.durations :
          /\ kmf.event_observed[i] = 0
          /\ kmf.event_observed[j] = 1
          /\ kmf.durations[i] < kmf.durations[j]
    /\ \E t \in Days(kmf) :
          /\ Less(SurvivalAt(kmf_naive.curve, t), SurvivalAt(kmf.curve, t))
          /\ Less(Zero, SurvivalAt(kmf_naive.curve, t))
          /\ Less(SurvivalAt(kmf.curve, t), One)

=============================================================================
